---- MODULE Spec2Model ----
(***************************************************************************)
(* State machine of the voice assistant front-end (src/App.tsx): the       *)
(* session controller (connect / disconnect / channel callbacks), the      *)
(* playback scheduler (onmessage audio branch, stopAllAudio), the          *)
(* transcript and the capture pipeline (volume report, frames sent).       *)
(*                                                                         *)
(* Every handler of the component runs to its next suspension point as one *)
(* action (the JavaScript event loop runs one callback at a time).  The    *)
(* awaits of the source are the places where a handler is split in two     *)
(* actions: getUserMedia (line 86), the session promise (line 163) and the *)
(* audio decode (line 126).  Before any of this the component loads its    *)
(* configuration from the config function (src/netlify/functions/config.ts)*)
(* and shows the loading screen meanwhile (lines 21-46, 181-190).          *)
(***************************************************************************)
EXTENDS Integers, Sequences, FiniteSets, TLC

\* ---------------------------------------------------------------- bounds
MaxChannels == 2      \* channels (connect attempts that reach ai.live.connect)
MaxAudio == 2         \* inbound audio payloads
MaxClock == 2         \* last value of the output clock
MaxDuration == 2      \* longest decoded buffer
MaxText == 2          \* longest transcript accumulator, in fragments
MaxFrames == 2        \* capture ticks of one capture pipeline
TimeStep == 1000      \* milliseconds between two readings of the fetch timer

Channels == 1..MaxChannels
Buffers == 1..MaxAudio
Durations == 1..MaxDuration
Volumes == {0, 1}

\* ConnectionStatus (src/types.ts 9-14)
DISCONNECTED == "DISCONNECTED"
CONNECTING == "CONNECTING"
CONNECTED == "CONNECTED"
ERROR == "ERROR"
ConnectionStatus == {DISCONNECTED, CONNECTING, CONNECTED, ERROR}

VARIABLES
    status,                \* useState status
    isSpeaking,            \* useState isSpeaking
    volume,                \* useState volume
    currentTranscription,  \* useState currentTranscription (sequence of tokens)
    audioContextRef,       \* TRUE once the two audio contexts exist
    sessionRef,            \* stored session: a channel, or 0 for null
    sourcesRef,            \* set of active buffer sources
    nextStartTimeRef,      \* the schedule cursor
    transcriptionRef,      \* [user, model] accumulators
    pendingConnects,       \* connect() invocations suspended at getUserMedia
    channel,               \* state of every channel of ai.live.connect
    wired,                 \* channels whose onopen ran (a capture pipeline each)
    resolved,              \* channels whose sessionPromise continuation ran
    currentTime,           \* outputCtx.currentTime
    received,              \* number of audio payloads received so far
    buffers,               \* per audio payload, unless stopped: message, duration, times
    decoding,              \* onmessage invocations suspended at the decode
    stopped,               \* sources stopped by stop(), 'ended' not yet delivered
    scheduled,             \* sources started since the last stopAllAudio, in start order
    connectIgnored,        \* TRUE once a connect() call returned at line 68
    isConfigLoading,       \* useState isConfigLoading
    config,                \* useState config: [systemInstruction, voiceName]
    env,                   \* process.env of the config function
    fetchState,            \* where loadConfig is
    elapsed,               \* milliseconds since the fetch was started
    frames,                \* per channel: the captured frames and what became of them
    arrived                \* transcript fragments by arrival, since the last turn-complete

sessionVars == <<status, audioContextRef, sessionRef, pendingConnects, channel, wired, resolved,
                 connectIgnored>>
playbackVars == <<isSpeaking, sourcesRef, nextStartTimeRef, received, buffers, decoding, stopped, scheduled>>
textVars == <<currentTranscription, transcriptionRef>>
vars == <<status, isSpeaking, volume, currentTranscription, audioContextRef, sessionRef,
          sourcesRef, nextStartTimeRef, transcriptionRef, pendingConnects, channel, wired,
          resolved, currentTime, received, buffers, decoding, stopped, scheduled,
          connectIgnored, isConfigLoading, config, env, fetchState, elapsed, frames, arrived>>
configVars == <<isConfigLoading, config, env, fetchState, elapsed>>

\* Everything the component itself owns (no environment, no bookkeeping).
appVars == <<status, isSpeaking, volume, currentTranscription, audioContextRef, sessionRef,
             sourcesRef, nextStartTimeRef, transcriptionRef, pendingConnects, channel, wired>>

Max(a, b) == IF a >= b THEN a ELSE b

\* ---------------------------------------------------------------- messages
\* A LiveServerMessage: audio is the duration of the payload's decoded buffer
\* (0: no audio part); the other fields are the optional serverContent parts.
Msg(a, i, o, t, x) ==
    [audio |-> a, inputTranscription |-> i, outputTranscription |-> o,
     turnComplete |-> t, interrupted |-> x]

NoMsg == Msg(0, FALSE, FALSE, FALSE, FALSE)

Messages ==
    {Msg(d, FALSE, FALSE, FALSE, FALSE) : d \in Durations}
    \cup {Msg(1, FALSE, FALSE, FALSE, TRUE),
          Msg(0, TRUE, FALSE, FALSE, FALSE),
          Msg(0, FALSE, TRUE, FALSE, FALSE),
          Msg(0, TRUE, TRUE, FALSE, FALSE),
          Msg(0, FALSE, FALSE, TRUE, FALSE),
          Msg(0, FALSE, TRUE, TRUE, FALSE),
          Msg(0, FALSE, FALSE, FALSE, TRUE),
          Msg(1, FALSE, TRUE, FALSE, FALSE)}

NoBuffer ==
    [msg |-> NoMsg, duration |-> 0, receivedAt |-> 0, first |-> FALSE, start |-> 0,
     startedAt |-> 0, quiet |-> FALSE, cancelled |-> FALSE]

\* ---------------------------------------------------------------- configuration
\* AppConfig.voiceName (src/types.ts 18), the options of the settings panel.
VoiceNames == {"Puck", "Charon", "Kore", "Fenrir", "Zephyr"}

\* The initial value of useState config (lines 16-19).
DefaultConfig == [systemInstruction |-> "default instruction", voiceName |-> "Puck"]

\* The abort delay of loadConfig (line 25), in milliseconds.
ConfigTimeout == 3000

\* customInstruction of the config function (config.ts line 11).
customInstruction == "custom instruction"

\* process.env as the config function reads it: "" is an unset or empty
\* variable, "Aoede" a voice that the settings panel does not offer.
Environments ==
    [SYSTEM_INSTRUCTION : {"", "env instruction"}, VOICE_NAME : {"", "Kore", "Aoede"}]

\* JavaScript's a || b on strings.
OrElse(a, b) == IF a # "" THEN a ELSE b

\* The config function (config.ts lines 13-26).
handler(e) ==
    [statusCode |-> 200,
     body |-> [systemInstruction |-> OrElse(e.SYSTEM_INSTRUCTION, customInstruction),
               voiceName |-> OrElse(e.VOICE_NAME, "Puck")]]

\* What the hosting answers when the function is not there.
NotFound == [statusCode |-> 404, body |-> [systemInstruction |-> "", voiceName |-> ""]]

\* Response.ok
Ok(r) == r.statusCode >= 200 /\ r.statusCode <= 299

\* What the user can type into the instruction field (line 212).
Instructions == {"", "typed instruction"}

NoFrames == [early |-> 0, queued |-> 0, sentLate |-> 0, sent |-> 0]

Init ==
    /\ status = DISCONNECTED
    /\ isSpeaking = FALSE
    /\ volume = 0
    /\ currentTranscription = <<>>
    /\ audioContextRef = FALSE
    /\ sessionRef = 0
    /\ sourcesRef = {}
    /\ nextStartTimeRef = 0
    /\ transcriptionRef = [user |-> <<>>, model |-> <<>>]
    /\ pendingConnects = 0
    /\ channel = [c \in Channels |-> "none"]
    /\ wired = {}
    /\ resolved = {}
    /\ currentTime = 0
    /\ received = 0
    /\ buffers = [b \in Buffers |-> NoBuffer]
    /\ decoding = {}
    /\ stopped = {}
    /\ scheduled = <<>>
    /\ connectIgnored = FALSE
    /\ isConfigLoading = TRUE
    /\ config = DefaultConfig
    /\ env \in Environments
    /\ fetchState = "unmounted"
    /\ elapsed = 0
    /\ frames = [c \in Channels |-> NoFrames]
    /\ arrived = [user |-> <<>>, model |-> <<>>]

\* ---------------------------------------------------------------- loadConfig
\* The effect of lines 21-46 runs after the first render: the abort timer is
\* set and the fetch is started (lines 24-27).
loadConfig ==
    /\ fetchState = "unmounted"
    /\ fetchState' = "pending"
    /\ elapsed' = 0
    /\ UNCHANGED <<isConfigLoading, config, env, sessionVars, playbackVars, textVars, volume,
                   currentTime, frames, arrived>>

\* Time passes while the fetch is pending; the timer of line 25 fires on time.
passTime ==
    /\ fetchState = "pending"
    /\ elapsed < ConfigTimeout
    /\ elapsed' = IF elapsed + TimeStep < ConfigTimeout THEN elapsed + TimeStep ELSE ConfigTimeout
    /\ UNCHANGED <<isConfigLoading, config, env, fetchState, sessionVars, playbackVars, textVars,
                   volume, currentTime, frames, arrived>>

\* The timer of line 25 fires and aborts nothing.
configTimeoutWithoutAbort ==
    /\ fetchState = "pending"
    /\ elapsed >= ConfigTimeout
    /\ UNCHANGED vars

\* The timer of line 25 fires: controller.abort() rejects the fetch, and
\* loadConfig goes through catch and finally (lines 38-42).
configTimeout ==
    /\ fetchState = "pending"
    /\ elapsed >= ConfigTimeout
    /\ fetchState' = "aborted"
    /\ isConfigLoading' = FALSE
    /\ UNCHANGED <<config, env, elapsed, sessionVars, playbackVars, textVars, volume,
                   currentTime, frames, arrived>>

\* The fetch is answered with r before the timer fires (lines 27-30): the
\* timer is cleared; an answer that is not ok ends loadConfig (line 42).
fetchResolved(r) ==
    /\ fetchState = "pending"
    /\ elapsed < ConfigTimeout
    /\ IF Ok(r)
       THEN /\ fetchState' = "json"
            /\ UNCHANGED isConfigLoading
       ELSE /\ fetchState' = "notOk"
            /\ isConfigLoading' = FALSE
    /\ UNCHANGED <<config, env, elapsed, sessionVars, playbackVars, textVars, volume,
                   currentTime, frames, arrived>>

\* The fetch fails before the timer fires (lines 38-42).
fetchRejected ==
    /\ fetchState = "pending"
    /\ elapsed < ConfigTimeout
    /\ fetchState' = "failed"
    /\ isConfigLoading' = FALSE
    /\ UNCHANGED <<config, env, elapsed, sessionVars, playbackVars, textVars, volume,
                   currentTime, frames, arrived>>

\* Lines 32-35: what setConfig stores for the body data.
ConfigFrom(data, cfg) ==
    [systemInstruction |-> OrElse(data.systemInstruction, cfg.systemInstruction),
     voiceName |-> OrElse(data.voiceName, cfg.voiceName)]

\* response.json() resolves with the body of the config function (lines
\* 31-36, 42); config of line 33 is the one of the first render.
jsonResolved ==
    /\ fetchState = "json"
    /\ fetchState' = "loaded"
    /\ config' = ConfigFrom(handler(env).body, DefaultConfig)
    /\ isConfigLoading' = FALSE
    /\ UNCHANGED <<env, elapsed, sessionVars, playbackVars, textVars, volume, currentTime,
                   frames, arrived>>

\* response.json() rejects: the body is not JSON (lines 31, 38-42).
jsonRejected ==
    /\ fetchState = "json"
    /\ fetchState' = "badBody"
    /\ isConfigLoading' = FALSE
    /\ UNCHANGED <<config, env, elapsed, sessionVars, playbackVars, textVars, volume,
                   currentTime, frames, arrived>>

\* The voice select of the settings panel (lines 217-227), which is rendered
\* once the loading screen is gone (line 181).
setVoiceName(v) ==
    /\ ~isConfigLoading
    /\ config' = [config EXCEPT !.voiceName = v]
    /\ UNCHANGED <<isConfigLoading, env, fetchState, elapsed, sessionVars, playbackVars,
                   textVars, volume, currentTime, frames, arrived>>

\* The instruction field of the settings panel (lines 209-213).
setSystemInstruction(t) ==
    /\ ~isConfigLoading
    /\ config' = [config EXCEPT !.systemInstruction = t]
    /\ UNCHANGED <<isConfigLoading, env, fetchState, elapsed, sessionVars, playbackVars,
                   textVars, volume, currentTime, frames, arrived>>

\* The component once loadConfig gave up on a fetch that failed: the
\* configuration is the default one and the loading screen is gone.
InitLoaded ==
    /\ status = DISCONNECTED
    /\ isSpeaking = FALSE
    /\ volume = 0
    /\ currentTranscription = <<>>
    /\ audioContextRef = FALSE
    /\ sessionRef = 0
    /\ sourcesRef = {}
    /\ nextStartTimeRef = 0
    /\ transcriptionRef = [user |-> <<>>, model |-> <<>>]
    /\ pendingConnects = 0
    /\ channel = [c \in Channels |-> "none"]
    /\ wired = {}
    /\ resolved = {}
    /\ currentTime = 0
    /\ received = 0
    /\ buffers = [b \in Buffers |-> NoBuffer]
    /\ decoding = {}
    /\ stopped = {}
    /\ scheduled = <<>>
    /\ connectIgnored = FALSE
    /\ isConfigLoading = FALSE
    /\ config = DefaultConfig
    /\ env = [SYSTEM_INSTRUCTION |-> "", VOICE_NAME |-> ""]
    /\ fetchState = "failed"
    /\ elapsed = 0
    /\ frames = [c \in Channels |-> NoFrames]
    /\ arrived = [user |-> <<>>, model |-> <<>>]

\* ---------------------------------------------------------------- session
UsedChannels == {c \in Channels : channel[c] # "none"}

\* connect() with the guard of line 68 letting every status but CONNECTING
\* through.
connectUnlessConnecting ==
    /\ ~isConfigLoading
    /\ IF status = CONNECTING
       THEN /\ connectIgnored' = TRUE
            /\ UNCHANGED <<status, audioContextRef, sessionRef, pendingConnects, channel, wired,
                           resolved, playbackVars, textVars, volume, currentTime,
                           configVars, frames, arrived>>
       ELSE /\ Cardinality(UsedChannels) + pendingConnects < MaxChannels
            /\ status' = CONNECTING
            /\ audioContextRef' = TRUE
            /\ pendingConnects' = pendingConnects + 1
            /\ UNCHANGED <<sessionRef, channel, wired, resolved, connectIgnored, playbackVars,
                           textVars, volume, currentTime,
                           configVars, frames, arrived>>

\* connect(), up to the await of getUserMedia (lines 67-86); its button is
\* rendered once the loading screen is gone (line 181).
connect ==
    /\ ~isConfigLoading
    /\ IF status # DISCONNECTED
       THEN /\ connectIgnored' = TRUE
            /\ UNCHANGED <<status, audioContextRef, sessionRef, pendingConnects, channel, wired,
                           resolved, playbackVars, textVars, volume, currentTime,
                           configVars, frames, arrived>>
       ELSE /\ Cardinality(UsedChannels) + pendingConnects < MaxChannels
            /\ status' = CONNECTING
            /\ audioContextRef' = TRUE
            /\ pendingConnects' = pendingConnects + 1
            /\ UNCHANGED <<sessionRef, channel, wired, resolved, connectIgnored, playbackVars,
                           textVars, volume, currentTime,
                           configVars, frames, arrived>>

\* getUserMedia resolves: ai.live.connect opens a channel and connect() is
\* suspended at the await of the session promise (lines 86-163).
liveConnect ==
    /\ pendingConnects > 0
    /\ \E c \in Channels :
        /\ channel[c] = "none"
        /\ \A k \in Channels : k < c => channel[k] # "none"
        /\ channel' = [channel EXCEPT ![c] = "opening"]
    /\ pendingConnects' = pendingConnects - 1
    /\ UNCHANGED <<status, audioContextRef, sessionRef, wired, resolved, playbackVars,
                   textVars, volume, currentTime, connectIgnored,
                   configVars, frames, arrived>>

\* The microphone streams acquired so far: getUserMedia (line 86) resolves
\* once per connect() that goes on to ai.live.connect.
StreamsAcquired == Cardinality(UsedChannels)

\* An await of connect() rejects before a channel exists: microphone
\* permission denied, or the connection could not be set up (lines 164-167).
connectCatch ==
    /\ pendingConnects > 0
    /\ pendingConnects' = pendingConnects - 1
    /\ status' = ERROR
    /\ UNCHANGED <<audioContextRef, sessionRef, channel, wired, resolved, playbackVars,
                   textVars, volume, currentTime, connectIgnored,
                   configVars, frames, arrived>>

\* callbacks.onopen (lines 100-120).
onopen(c) ==
    /\ channel[c] = "opening"
    /\ channel' = [channel EXCEPT ![c] = "open"]
    /\ status' = CONNECTED
    /\ wired' = wired \cup {c}
    /\ UNCHANGED <<audioContextRef, sessionRef, pendingConnects, resolved, playbackVars,
                   textVars, volume, currentTime, connectIgnored,
                   configVars, frames, arrived>>

\* Lines 113-115, when the session promise resolves: the sends that the
\* capture ticks registered on it run.
SendQueued(f) == [f EXCEPT !.sentLate = f.sentLate + f.queued, !.queued = 0]

\* The session promise resolves: the callbacks registered on it run and
\* connect() resumes (line 163).
sessionResolved(c) ==
    /\ c \in wired
    /\ c \notin resolved
    /\ resolved' = resolved \cup {c}
    /\ sessionRef' = c
    /\ frames' = [frames EXCEPT ![c] = SendQueued(frames[c])]
    /\ UNCHANGED <<status, audioContextRef, pendingConnects, channel, wired, playbackVars,
                   textVars, volume, currentTime, connectIgnored,
                   configVars, arrived>>

\* callbacks.onerror (lines 155-158).  The transport reports an error and
\* closes afterwards.
onerror(c) ==
    /\ channel[c] \in {"opening", "open", "closing"}
    /\ channel' = [channel EXCEPT ![c] = "failed"]
    /\ status' = ERROR
    /\ UNCHANGED <<audioContextRef, sessionRef, pendingConnects, wired, resolved,
                   playbackVars, textVars, volume, currentTime, connectIgnored,
                   configVars, frames, arrived>>

\* callbacks.onclose (line 159): the peer closed, the close asked for by
\* disconnect() completed, or a failed transport closed.
onclose(c) ==
    /\ channel[c] \in {"open", "closing", "failed"}
    /\ channel' = [channel EXCEPT ![c] = "closed"]
    /\ status' = DISCONNECTED
    /\ UNCHANGED <<audioContextRef, sessionRef, pendingConnects, wired, resolved,
                   playbackVars, textVars, volume, currentTime, connectIgnored,
                   configVars, frames, arrived>>

Range(q) == {q[i] : i \in 1..Len(q)}

\* The records of the sources in gone are dropped: a source that stop() ended,
\* or a payload that was never started.
Forget(bufs, gone) == [b \in Buffers |-> IF b \in gone THEN NoBuffer ELSE bufs[b]]

\* stopAllAudio for an interruption (lines 151-153, 58-65) on the buffer
\* records: the sources it stopped are dropped, and a payload whose decode is
\* pending is marked as one that the interruption has overtaken.
AfterStop(bufs, srcs) ==
    [b \in Buffers |->
        IF b \in srcs THEN NoBuffer
        ELSE IF b \in decoding THEN [bufs[b] EXCEPT !.cancelled = TRUE]
        ELSE bufs[b]]

\* session.close() of the stored session.
CloseOf(ch, s) ==
    IF s # 0 /\ ch[s] = "open" THEN [ch EXCEPT ![s] = "closing"] ELSE ch

\* disconnect() (lines 170-179); the button calls it only while the rendered
\* status is CONNECTED (line 257).
disconnect ==
    /\ status = CONNECTED
    /\ channel' = CloseOf(channel, sessionRef)
    /\ sessionRef' = 0
    /\ stopped' = stopped \cup sourcesRef
    /\ sourcesRef' = {}
    /\ nextStartTimeRef' = 0
    /\ isSpeaking' = FALSE
    /\ scheduled' = <<>>
    /\ status' = DISCONNECTED
    /\ volume' = 0
    /\ currentTranscription' = <<>>
    /\ buffers' = Forget(buffers, sourcesRef)
    /\ UNCHANGED <<audioContextRef, pendingConnects, wired, resolved, transcriptionRef,
                   received, decoding, currentTime, connectIgnored,
                   configVars, frames, arrived>>

\* The frames that the capture pipeline of a channel has produced.
Captured(f) == f.early + f.sent

\* scriptProcessor.onaudioprocess (lines 105-116) with the send of lines
\* 113-115 left out while the session promise is pending.
onaudioprocessDropping(c) ==
    /\ c \in wired
    /\ Captured(frames[c]) < MaxFrames
    /\ \E v \in Volumes : volume' = v
    /\ frames' = [frames EXCEPT ![c] =
           IF c \in resolved
           THEN [@ EXCEPT !.sent = @ + 1]
           ELSE [@ EXCEPT !.early = @ + 1]]
    /\ UNCHANGED <<sessionVars, playbackVars, textVars, currentTime, configVars, arrived>>

\* scriptProcessor.onaudioprocess (lines 105-116): the volume report, and the
\* frame handed to sessionPromise.then, which sends it at once when the
\* promise has resolved and keeps it until the promise resolves otherwise.
onaudioprocess(c) ==
    /\ c \in wired
    /\ Captured(frames[c]) < MaxFrames
    /\ \E v \in Volumes : volume' = v
    /\ frames' = [frames EXCEPT ![c] =
           IF c \in resolved
           THEN [@ EXCEPT !.sent = @ + 1]
           ELSE [@ EXCEPT !.early = @ + 1, !.queued = @ + 1]]
    /\ UNCHANGED <<sessionVars, playbackVars, textVars, currentTime, configVars, arrived>>

\* ---------------------------------------------------------------- playback
\* Line 125: the cursor is brought up to the output clock.
CursorAtReceive(cursor, now) == Max(cursor, now)

\* Line 136: the cursor advances by the buffer's duration.
CursorAfterStart(cursor, duration) == cursor + duration

\* Lines 140-150: the accumulators after a message.
TranscriptAfter(tr, m) ==
    LET u == IF m.inputTranscription THEN Append(tr.user, "u") ELSE tr.user
        o == IF m.outputTranscription THEN Append(tr.model, "m") ELSE tr.model
    IN IF m.turnComplete THEN [user |-> <<>>, model |-> <<>>] ELSE [user |-> u, model |-> o]

\* Lines 142 and 146: the text on display after a message ("U:" and "M:"
\* stand for the two role prefixes).
ShownAfter(cur, tr, m) ==
    IF m.outputTranscription THEN <<"M:">> \o Append(tr.model, "m")
    ELSE IF m.inputTranscription THEN <<"U:">> \o Append(tr.user, "u")
    ELSE cur

TextFits(m) ==
    /\ m.inputTranscription => Len(transcriptionRef.user) < MaxText
    /\ m.outputTranscription => Len(transcriptionRef.model) < MaxText

\* Lines 140-153 of onmessage with an interruption that clears the transcript
\* as well.
restOfMessageClearingText(m, bufs, srcs, cursor, speaking, sched) ==
    /\ transcriptionRef' =
           IF m.interrupted THEN [user |-> <<>>, model |-> <<>>]
           ELSE TranscriptAfter(transcriptionRef, m)
    /\ currentTranscription' =
           IF m.interrupted THEN <<>>
           ELSE ShownAfter(currentTranscription, transcriptionRef, m)
    /\ IF m.interrupted
       THEN /\ stopped' = stopped \cup srcs
            /\ sourcesRef' = {}
            /\ nextStartTimeRef' = 0
            /\ isSpeaking' = FALSE
            /\ scheduled' = <<>>
            /\ buffers' = AfterStop(bufs, srcs)
       ELSE /\ stopped' = stopped
            /\ buffers' = bufs
            /\ sourcesRef' = srcs
            /\ nextStartTimeRef' = cursor
            /\ isSpeaking' = speaking
            /\ scheduled' = sched

\* Lines 140-153 of onmessage, run on the playback state (srcs, cursor,
\* speaking, sched) that the audio branch left.
restOfMessage(m, bufs, srcs, cursor, speaking, sched) ==
    /\ transcriptionRef' = TranscriptAfter(transcriptionRef, m)
    /\ currentTranscription' = ShownAfter(currentTranscription, transcriptionRef, m)
    /\ IF m.interrupted
       THEN \* stopAllAudio (lines 58-65)
            /\ stopped' = stopped \cup srcs
            /\ sourcesRef' = {}
            /\ nextStartTimeRef' = 0
            /\ isSpeaking' = FALSE
            /\ scheduled' = <<>>
            /\ buffers' = AfterStop(bufs, srcs)
       ELSE /\ stopped' = stopped
            /\ buffers' = bufs
            /\ sourcesRef' = srcs
            /\ nextStartTimeRef' = cursor
            /\ isSpeaking' = speaking
            /\ scheduled' = sched

\* callbacks.onmessage (lines 121-154), up to the await of the decode when
\* the message carries audio, to its end otherwise.
onmessage(c, m) ==
    /\ channel[c] \in {"open", "closing"}
    /\ TextFits(m)
    /\ IF m.audio > 0
       THEN /\ received < MaxAudio
            /\ received' = received + 1
            /\ buffers' = [buffers EXCEPT ![received'] =
                   [msg |-> m, duration |-> m.audio, receivedAt |-> currentTime,
                    first |-> (nextStartTimeRef = 0 /\ decoding = {}),
                    start |-> 0, startedAt |-> 0, quiet |-> ~isSpeaking,
                    cancelled |-> FALSE]]
            /\ decoding' = decoding \cup {received'}
            /\ isSpeaking' = TRUE
            /\ nextStartTimeRef' = CursorAtReceive(nextStartTimeRef, currentTime)
            /\ UNCHANGED <<sourcesRef, stopped, scheduled, textVars>>
       ELSE /\ restOfMessage(m, buffers, sourcesRef, nextStartTimeRef, isSpeaking, scheduled)
            /\ UNCHANGED <<received, decoding>>
    /\ arrived' = TranscriptAfter(arrived, m)
    /\ UNCHANGED <<sessionVars, volume, currentTime, configVars, frames>>

\* decodeAudioData of utils/audioUtils.ts: awaiting a decode is a suspension
\* point; a pending decode may settle at any later time, whatever the other
\* pending decodes do.
decodeAudioData(b) == b \in decoding

\* The decode resolves and onmessage resumes (lines 127-153); the record
\* keeps what is known of a pending decode (quiet, cancelled) no longer.
decoded(b) ==
    /\ decodeAudioData(b)
    /\ TextFits(buffers[b].msg)
    /\ decoding' = decoding \ {b}
    /\ restOfMessage(buffers[b].msg,
                     [buffers EXCEPT ![b].start = nextStartTimeRef,
                                     ![b].startedAt = currentTime,
                                     ![b].quiet = FALSE,
                                     ![b].cancelled = FALSE],
                     sourcesRef \cup {b},
                     CursorAfterStart(nextStartTimeRef, buffers[b].duration),
                     isSpeaking,
                     Append(scheduled, b))
    /\ UNCHANGED <<sessionVars, received, volume, currentTime,
                   configVars, frames, arrived>>

\* The decode rejects: the rest of onmessage is skipped (line 126).
decodeFailed(b) ==
    /\ decodeAudioData(b)
    /\ decoding' = decoding \ {b}
    /\ buffers' = Forget(buffers, {b})
    /\ UNCHANGED <<sessionVars, isSpeaking, sourcesRef, nextStartTimeRef, received, stopped,
                   scheduled, textVars, volume, currentTime,
                   configVars, frames, arrived>>

\* When the output has played the whole buffer: a start time in the past
\* starts the buffer at once.
PlayedUntil(b) == Max(buffers[b].start, buffers[b].startedAt) + buffers[b].duration

\* The 'ended' listener (lines 131-134), for a source that played to its end
\* or that stop() ended.
onended(b) ==
    /\ \/ b \in sourcesRef /\ currentTime >= PlayedUntil(b)
       \/ b \in stopped
    /\ sourcesRef' = sourcesRef \ {b}
    /\ stopped' = stopped \ {b}
    /\ isSpeaking' = IF sourcesRef' = {} THEN FALSE ELSE isSpeaking
    /\ UNCHANGED <<sessionVars, nextStartTimeRef, received, buffers, decoding, scheduled, textVars,
                   volume, currentTime,
                   configVars, frames, arrived>>

\* The output clock advances.
tick ==
    /\ currentTime < MaxClock
    /\ currentTime' = currentTime + 1
    /\ UNCHANGED <<sessionVars, playbackVars, textVars, volume,
                   configVars, frames, arrived>>

\* ---------------------------------------------------------------- next-state
HasText(m) == m.inputTranscription \/ m.outputTranscription \/ m.turnComplete
AudioMessages == {m \in Messages : (m.audio > 0 \/ m.interrupted) /\ ~HasText(m)}
TextMessages == {m \in Messages : m.audio = 0 /\ ~m.interrupted}
MixedMessages == {m \in Messages : m.audio > 0 /\ HasText(m)}
Interruptions == {m \in Messages : m.interrupted}

NextSession ==
    \/ connect
    \/ liveConnect
    \/ connectCatch
    \/ \E c \in Channels : onopen(c)
    \/ \E c \in Channels : sessionResolved(c)
    \/ \E c \in Channels : onerror(c)
    \/ \E c \in Channels : onclose(c)
    \/ disconnect

NextPlayback ==
    \/ \E c \in Channels, m \in AudioMessages : onmessage(c, m)
    \/ \E b \in Buffers : decoded(b)
    \/ \E b \in Buffers : decodeFailed(b)
    \/ \E b \in Buffers : onended(b)
    \/ tick

NextDecode ==
    \/ \E b \in Buffers : decoded(b)
    \/ \E b \in Buffers : decodeFailed(b)

NextText == \E c \in Channels, m \in TextMessages \cup MixedMessages : onmessage(c, m)

\* A message with an audio payload and nothing else.
AudioOnly == Msg(1, FALSE, FALSE, FALSE, FALSE)

NextInterrupt == \E c \in Channels, m \in Interruptions \cup {AudioOnly} : onmessage(c, m)

NextTextOnly == \E c \in Channels, m \in TextMessages : onmessage(c, m)

NextCapture == \E c \in Channels : onaudioprocess(c)

NextConfig ==
    \/ loadConfig
    \/ passTime
    \/ configTimeout
    \/ \E r \in {handler(env), NotFound} : fetchResolved(r)
    \/ fetchRejected
    \/ jsonResolved
    \/ jsonRejected
    \/ \E v \in VoiceNames : setVoiceName(v)
    \/ \E t \in Instructions : setSystemInstruction(t)

Next == NextConfig \/ NextSession \/ NextPlayback \/ NextText \/ NextCapture

\* The whole component.
Spec == Init /\ [][Next]_vars

\* The configuration: loadConfig against the config function, then the
\* settings panel.  No handler of the session reads or writes its variables
\* but ai.live.connect, which reads config (lines 90-98).
SpecConfig == Init /\ [][NextConfig]_vars

\* The same, with the steps that the event loop takes by itself: the effect
\* runs after the first render, time passes, and a timer that is due fires.
\* Whether and when the fetch is answered is up to the network.
SpecConfigFair ==
    SpecConfig /\ WF_vars(loadConfig) /\ WF_vars(passTime) /\ WF_vars(configTimeout)

\* The session controller with the transcript: the messages that carry
\* transcript parts, and the decodes of those that carry audio as well.  The
\* output clock stands still and no source plays to its end, which no handler
\* kept here depends on.
SpecTranscript == InitLoaded /\ [][NextSession \/ NextText \/ NextDecode]_vars

\* The session controller with the transcript and the interruptions: the
\* messages that carry transcript parts only, those that carry an
\* interruption, an audio payload for them to stop, and the decodes.
SpecInterrupt ==
    InitLoaded /\ [][NextSession \/ NextTextOnly \/ NextInterrupt \/ NextDecode]_vars

\* The session controller with the messages that carry transcript parts only.
SpecText == InitLoaded /\ [][NextSession \/ NextTextOnly]_vars

\* The session controller with the capture pipeline.
SpecCapture == InitLoaded /\ [][NextSession \/ NextCapture]_vars

\* The session controller with the playback scheduler, once the configuration
\* is loaded.  The handlers left out
\* (transcript-only messages, capture ticks) write currentTranscription,
\* transcriptionRef and volume only, which no handler kept here reads.
SpecPlayback == InitLoaded /\ [][NextSession \/ NextPlayback]_vars

\* The session controller alone: no handler of NextSession reads a variable
\* that the other handlers write, except disconnect, which resets them.
SpecSession == InitLoaded /\ [][NextSession]_vars

\* ---------------------------------------------------------------- properties
ChannelEvent ==
    \E c \in Channels :
        \/ onopen(c)
        \/ onerror(c)
        \/ onclose(c)
        \/ \E m \in Messages : onmessage(c, m)

\* What a handler may write besides the playback state and the bookkeeping of
\* the sources.
notPlaybackVars ==
    <<status, volume, currentTranscription, transcriptionRef, audioContextRef, sessionRef,
      pendingConnects, channel, wired, configVars>>

\* A handler that ran stopAllAudio.
Flushed ==
    \/ disconnect
    \/ \E c \in Channels, m \in Messages : m.audio = 0 /\ m.interrupted /\ onmessage(c, m)
    \/ \E b \in Buffers : buffers[b].msg.interrupted /\ decoded(b)

\* The payloads whose source was started and not stopped by stopAllAudio.
Started == {b \in Buffers : buffers[b].duration > 0 /\ b \notin decoding}

\* C1: connect() has an effect only when the status is DISCONNECTED; called in
\* any other status it changes nothing of the component (no channel is opened,
\* no connect is in flight, no status change), and a call that does take
\* effect leaves the status CONNECTING with one more connect in flight, so a
\* second call in a row is such a no-op.
C1_ConnectOnlyWhenDisconnected ==
    [][connect =>
        IF status = DISCONNECTED
        THEN /\ status' = CONNECTING
             /\ pendingConnects' = pendingConnects + 1
             /\ channel' = channel
        ELSE UNCHANGED appVars]_vars

\* A connect() call was ignored, and the one connect that took effect has
\* opened its one channel and reached CONNECTED.
C1_Witness ==
    /\ connectIgnored
    /\ status = CONNECTED
    /\ UsedChannels = {1}
    /\ pendingConnects = 0

\* C2: from ERROR, the user pressing start again (connect()) begins a new
\* connection attempt.
C2_RetryFromError == [][(connect /\ status = ERROR) => status' = CONNECTING]_vars

\* C3: once the status is ERROR, it leaves ERROR only by a user action
\* (connect or disconnect), never by a channel event.
C3_ErrorUntilUserActs ==
    [][(status = ERROR /\ status' # ERROR) => (connect \/ disconnect) /\ ~ChannelEvent]_vars

\* C4: a channel error received while CONNECTING or CONNECTED leaves the
\* status ERROR, the active set empty and the cursor reset.
C4_ChannelErrorFlushes ==
    [][((\E c \in Channels : onerror(c)) /\ status \in {CONNECTING, CONNECTED}) =>
        (status' = ERROR /\ sourcesRef' = {} /\ nextStartTimeRef' = 0)]_vars

\* C5: disconnect() from CONNECTED leaves the status DISCONNECTED, no channel
\* open, every active source stopped, the active set empty, the cursor 0, the
\* speaking indicator off, the volume 0 and no transcript on display.
C5_DisconnectResetsAll ==
    [][disconnect =>
        /\ status' = DISCONNECTED
        /\ \A c \in Channels : channel'[c] # "open"
        /\ sourcesRef \subseteq stopped'
        /\ sourcesRef' = {}
        /\ nextStartTimeRef' = 0
        /\ isSpeaking' = FALSE
        /\ volume' = 0
        /\ currentTranscription' = <<>>]_vars

\* C6: stopAllAudio stops every active source, empties the active set and
\* resets the cursor to 0, and the first payload enqueued into the scheduler so
\* reset (cursor 0, nothing being decoded) is started at the output time of
\* its enqueue, max(0, currentTime).
C6_FlushThenStartNow ==
    /\ [][Flushed =>
            /\ sourcesRef \subseteq stopped'
            /\ sourcesRef' = {}
            /\ nextStartTimeRef' = 0]_vars
    /\ [](\A b \in Started :
            buffers[b].first => buffers[b].start = Max(0, buffers[b].receivedAt))

\* C7: for consecutive payloads A then B, both started with no flush in
\* between, B's start time is A's start time plus A's duration, whenever the
\* output clock was at most A's start time when B was started.
C7_BackToBack ==
    \A a, b \in Range(scheduled) :
        (b = a + 1 /\ buffers[b].startedAt <= buffers[a].start)
            => buffers[b].start = buffers[a].start + buffers[a].duration

\* C8: the intervals [start, start + duration) of the sources that were
\* started and not stopped by stopAllAudio are pairwise disjoint.
C8_NoOverlap ==
    \A a, b \in Started :
        a # b =>
            \/ buffers[a].start + buffers[a].duration <= buffers[b].start
            \/ buffers[b].start + buffers[b].duration <= buffers[a].start

\* C9: a source is never started in the past: its start time is at least the
\* output clock at the moment source.start is called.
C9_NeverInThePast == \A b \in Started : buffers[b].start >= buffers[b].startedAt

\* C10: payloads are scheduled in the order received: of two payloads started
\* with no flush in between, the one received first has the earlier start time.
C10_ReceivedOrder ==
    \A a, b \in Range(scheduled) : a < b => buffers[a].start < buffers[b].start

\* C11 as stated: a frame captured while the session promise is pending is
\* dropped: none is kept for a later send, none is sent later.
C11_DroppedBeforeSession ==
    \A c \in Channels : frames[c].queued = 0 /\ frames[c].sentLate = 0

\* C11: a frame captured while the session promise is pending is not sent
\* before the promise resolves and is not dropped either: it is kept, and
\* all the frames so kept are sent when the promise resolves.
C11_DeferredUntilSession ==
    \A c \in Channels :
        IF c \in resolved
        THEN frames[c].queued = 0 /\ frames[c].sentLate = frames[c].early
        ELSE /\ frames[c].sent = 0
             /\ frames[c].sentLate = 0
             /\ frames[c].queued = frames[c].early

\* Two frames captured between onopen and the resolution of the session
\* promise have been sent.
C11_Witness == \E c \in Channels : c \in resolved /\ frames[c].sentLate = 2

\* C12: whenever every message received so far has been handled to its end,
\* each role's accumulator is the concatenation, in arrival order, of the
\* fragments of that role received since the last turn-complete signal; a
\* turn-complete signal leaves both accumulators empty; a fragment puts on
\* display the whole text accumulated for its role (the model's, when the
\* message has a fragment of each role).
C12_TranscriptByArrival ==
    /\ [](decoding = {} => transcriptionRef = arrived)
    /\ [][\A c \in Channels, m \in TextMessages :
            onmessage(c, m) =>
                /\ m.turnComplete => transcriptionRef' = [user |-> <<>>, model |-> <<>>]
                /\ currentTranscription' =
                       IF m.outputTranscription THEN <<"M:">> \o Append(arrived.model, "m")
                       ELSE IF m.inputTranscription THEN <<"U:">> \o Append(arrived.user, "u")
                       ELSE currentTranscription]_vars

\* C13: an audio payload that cannot be decoded is dropped without a change
\* of the session state.  For a payload received while the speaking indicator
\* was off, whose decode fails while no source is active and no other decode
\* is pending: the status and the (empty) active set are left alone, the
\* speaking indicator is off again, and the cursor is 0 again if it was 0
\* when the payload arrived.
C13_FailedDecodeLeavesState ==
    [][\A b \in Buffers :
        (decodeFailed(b) /\ buffers[b].quiet /\ decoding = {b} /\ sourcesRef = {}) =>
            /\ status' = status
            /\ sourcesRef' = {}
            /\ isSpeaking' = FALSE
            /\ buffers[b].first => nextStartTimeRef' = 0]_vars

C15_VoiceOfTheFixedSet ==
    /\ fetchState \in {"json", "loaded"} =>
            /\ handler(env).statusCode = 200
            /\ handler(env).body.systemInstruction # ""
            /\ handler(env).body.voiceName \in VoiceNames
    /\ config.voiceName \in VoiceNames

\* C16: over any sequence of connects, disconnects and reconnects the
\* microphone stream is acquired at most once, and the pair of audio
\* contexts, once created, is kept (no connect creates another).
C16_AcquiredOnce ==
    /\ [](StreamsAcquired <= 1)
    /\ [][audioContextRef => audioContextRef']_vars

\* C17: an interruption (a message with no other part, or with an audio
\* payload only, once that is decoded) handled while the status is CONNECTED
\* leaves the status CONNECTED and the accumulators and the text on display
\* as they were, and nothing else of the component changes but the playback
\* state: the active set is empty, the cursor 0 and the indicator off.
C17_InterruptionKeepsTranscript ==
    [][(/\ status = CONNECTED
        /\ \/ \E c \in Channels : onmessage(c, Msg(0, FALSE, FALSE, FALSE, TRUE))
           \/ \E b \in Buffers :
                 /\ buffers[b].msg.interrupted
                 /\ ~HasText(buffers[b].msg)
                 /\ decoded(b))
        => /\ status' = CONNECTED
           /\ transcriptionRef' = transcriptionRef
           /\ currentTranscription' = currentTranscription
           /\ UNCHANGED notPlaybackVars
           /\ sourcesRef' = {}
           /\ nextStartTimeRef' = 0
           /\ isSpeaking' = FALSE]_vars

\* The one session there has been is up, and an interruption has stopped a
\* source of it while a transcript is accumulated and on display.
C17_Witness ==
    /\ status = CONNECTED
    /\ UsedChannels = {1}
    /\ channel[1] = "open"
    /\ sessionRef = 1
    /\ stopped # {}
    /\ sourcesRef = {}
    /\ nextStartTimeRef = 0
    /\ transcriptionRef.model # <<>>
    /\ currentTranscription # <<>>

\* C18: the speaking indicator follows the active set: it is on whenever the
\* active set is not empty, and off whenever the active set is empty and no
\* decode is pending.
C18_IndicatorTracksActiveSet ==
    /\ sourcesRef # {} => isSpeaking
    /\ (sourcesRef = {} /\ decoding = {}) => ~isSpeaking

\* C19: a payload whose decode was pending when an interruption was handled
\* is cancelled: when its decode resolves, no source is started for it and
\* none is added to the active set.
C19_FlushCancelsDecode ==
    [][\A b \in Buffers :
        (decoded(b) /\ buffers[b].cancelled) =>
            (b \notin sourcesRef' /\ b \notin stopped')]_vars

\* C20: audio is scheduled only while the status is CONNECTED: whenever the
\* status is DISCONNECTED or ERROR the active set is empty.
C20_NoAudioUnlessConnected ==
    status \in {DISCONNECTED, ERROR} => sourcesRef = {}

\* A channel that a later connect() has opened after channel c.
Newer(c) == \E k \in Channels : k > c /\ channel[k] # "none"

\* The channel opened last, 0 when there is none.
Latest == IF UsedChannels = {} THEN 0 ELSE CHOOSE c \in UsedChannels : \A k \in UsedChannels : k <= c

\* C21: once a later connect() has opened its channel, a close, error or
\* message event of an earlier channel changes nothing of the component: not
\* the status, not the playback state, not the transcript; and the status is
\* CONNECTED only while the channel opened last is open.
C21_StaleCallbacksIgnored ==
    /\ [][\A c \in Channels :
            (/\ Newer(c)
             /\ \/ onclose(c)
                \/ onerror(c)
                \/ \E m \in Messages : onmessage(c, m))
            => UNCHANGED appVars]_vars
    /\ [](status = CONNECTED => (Latest # 0 /\ channel[Latest] = "open"))

\* C22: disconnect() called while the status is CONNECTED closes the channel
\* that is open, also when it runs between onopen and the storing of the
\* session (line 163); and no channel is open while the status is
\* DISCONNECTED.
C22_DisconnectClosesChannel ==
    /\ [][(disconnect /\ status = CONNECTED) =>
            \A c \in Channels : channel[c] = "open" => channel'[c] = "closing"]_vars
    /\ [](status = DISCONNECTED => \A c \in Channels : channel[c] # "open")

\* C23: outside a session (the status is not CONNECTED: after disconnect() or
\* a close or error of the channel, until a channel opens again) a capture
\* tick changes neither the reported volume nor what was sent or is kept to be
\* sent; and at most one capture pipeline is wired at any time.
C23_CaptureOnlyInSession ==
    /\ [][\A c \in Channels :
            (onaudioprocess(c) /\ status # CONNECTED) =>
                (volume' = volume /\ frames' = frames)]_vars
    /\ [](Cardinality(wired) <= 1)

\* C24: a session starts with empty accumulators.  While the status is
\* CONNECTED for the channel opened last and nothing is on display (nothing
\* was published since that channel opened: only disconnect() clears the
\* display, and it ends the session), the first fragment received on that
\* channel is published alone.
C24_FreshTranscriptPerSession ==
    [][\A c \in Channels, m \in TextMessages :
        (/\ onmessage(c, m)
         /\ c = Latest
         /\ status = CONNECTED
         /\ currentTranscription = <<>>)
        => currentTranscription' =
               IF m.outputTranscription THEN <<"M:", "m">>
               ELSE IF m.inputTranscription THEN <<"U:", "u">>
               ELSE <<>>]_vars
====
